---- MODULE Spec2Model ----
(***************************************************************************)
(* Molecules API: the Molecule Service (validation, record store, cache)   *)
(* as a state machine.  Every await of a service call is one step, so      *)
(* concurrent requests interleave exactly at the suspension points of the  *)
(* code.  The relational store and the Redis cache are shared by all       *)
(* requests; a request's SQLAlchemy session and its locals are its own.    *)
(***************************************************************************)
EXTENDS Integers, Sequences, FiniteSets, TLC

(* ------------------------------ bounds -------------------------------- *)

\* the number of primary keys the store's sequence can hand out
MaxId == 2

Ids == 1 .. MaxId

\* the rows a table of molecules can hold when a worker or a listing reads it
MaxRows == 3

\* the requests that can be in flight at the same time
Req == {"r1", "r2"}

(* ------------------------------ values -------------------------------- *)

\* SQL NULL / Python None
NULL == "<null>"

\* a field of MoleculeUpdate that the request body did not set
UNSET == "<unset>"

\* SMILES strings a request can carry
Smiles == {"CCO", "", "invalid-smiles"}


\* the structures and queries of the search tests that RDKit parses
Parseable == {"CCO", "c1ccccc1", "CC(=O)O", "CC(=O)Oc1ccccc1C(=O)O", "C(=O)O", "F"}

\* Chem.MolFromSmiles(smiles) is not None.  RDKit parses the empty string
\* to the empty molecule, so it is not None for "".
MolFromSmiles(smiles) == smiles \in Parseable \cup {""}

\* mol.HasSubstructMatch(substructure_mol), for the pairs of the search tests:
\* the benzene ring and the carboxyl group are contained in aspirin, a molecule
\* contains itself, "F" is in none; the empty molecule neither contains nor is
\* contained in anything.
HasSubstructMatch(smiles, substructure) ==
    <<smiles, substructure>> \in
        {<<"CCO", "CCO">>,
         <<"c1ccccc1", "c1ccccc1">>, <<"CC(=O)Oc1ccccc1C(=O)O", "c1ccccc1">>,
         <<"CC(=O)O", "C(=O)O">>, <<"CC(=O)Oc1ccccc1C(=O)O", "C(=O)O">>}

\* _validate_smiles answering True whatever the parser returns
validate_smiles_always(smiles) == TRUE

\* self.rdkit_cache = {} of MoleculeService.__init__
NoMemo == [s \in {} |-> TRUE]

\* _validate_smiles that stores every answer in rdkit_cache, False as well
ValidateStoringAll(memo, smiles) ==
    IF smiles \in DOMAIN memo
    THEN [is_valid |-> memo[smiles], rdkit_cache |-> memo, parsed |-> FALSE]
    ELSE [is_valid |-> MolFromSmiles(smiles),
          rdkit_cache |-> [s \in DOMAIN memo \cup {smiles} |->
                              IF s = smiles THEN MolFromSmiles(smiles) ELSE memo[s]],
          parsed |-> TRUE]

\* MoleculeService._validate_smiles(smiles) on a service whose rdkit_cache is
\* memo: the value it returns, the rdkit_cache it leaves, and whether it
\* called Chem.MolFromSmiles.  A string found in the memo is answered from it;
\* any other string is parsed, and it is stored, as True, only if it parses.
Validate(memo, smiles) ==
    IF smiles \in DOMAIN memo
    THEN [is_valid |-> memo[smiles], rdkit_cache |-> memo, parsed |-> FALSE]
    ELSE [is_valid |-> MolFromSmiles(smiles),
          rdkit_cache |-> IF MolFromSmiles(smiles)
                          THEN [s \in DOMAIN memo \cup {smiles} |-> TRUE]
                          ELSE memo,
          parsed |-> TRUE]

\* _validate_smiles of the service of a request.  get_molecule_service builds
\* the service object, and with it rdkit_cache, anew for every request, so the
\* memo is empty at the one validation a create, an update or a submit makes.
validate_smiles(smiles) == Validate(NoMemo, smiles).is_valid

\* Python truthiness of an Optional[str]
Truthy(s) == s # NULL /\ s # UNSET /\ s # ""

NoRow == [present |-> FALSE, smiles_string |-> NULL, name |-> NULL]

Row(s, n) == [present |-> TRUE, smiles_string |-> s, name |-> n]

NoMolecule == [id |-> 0, smiles_string |-> NULL, name |-> NULL]

\* model_validate that leaves the optional field name at its default
MoleculeInDBWithoutName(id, row) == [id |-> id, smiles_string |-> row.smiles_string, name |-> NULL]

\* MoleculeInDB.model_validate(db_molecule)
MoleculeInDB(id, row) == [id |-> id, smiles_string |-> row.smiles_string, name |-> row.name]

\* MoleculeInDB.model_dump_json(): the fields in declaration order
model_dump_json(m) == <<m.smiles_string, m.name, m.id>>

\* model_validate_json reading the JSON fields in the wrong order
model_validate_json_swapped(j) == [id |-> j[3], smiles_string |-> j[2], name |-> j[1]]

\* MoleculeInDB.model_validate(json.loads(cached_data))
model_validate_json(j) == [id |-> j[3], smiles_string |-> j[1], name |-> j[2]]

cache_key(id) == <<"molecule", id>>


\* molecule_data.model_dump(exclude_unset=True)
update_data(p) == {f \in {"smiles_string", "name"} : p[f] # UNSET}

NoPayload == [smiles_string |-> UNSET, name |-> UNSET]

NoResult == [kind |-> "none", value |-> NoMolecule]

Ok(m) == [kind |-> "ok", value |-> m]

Raise(e) == [kind |-> e, value |-> NoMolecule]

\* a request that has not arrived: its service object is the one that
\* get_molecule_service will build for it
Idle ==
    [op |-> "idle", pc |-> "idle", id |-> 0, payload |-> NoPayload,
     db_molecule |-> NoMolecule, calls |-> <<>>, errors |-> {},
     rdkit_cache |-> NoMemo, parsed |-> <<>>,
     skip |-> 0, limit |-> 0, items |-> <<>>,
     result |-> NoResult]

(* ------------------------ values of the Job Queue --------------------- *)

\* the task ids that uuid() can draw
MaxTasks == 2

TaskIds == 1 .. MaxTasks

\* the value of the field result: None, a list of SMILES, an exception with
\* its message, or str(exception)
None == [type |-> "none", value |-> <<>>]

List(l) == [type |-> "list", value |-> l]

Exc(msg) == [type |-> "exception", value |-> <<msg>>]

\* str(task_result.result)
Str(x) == [type |-> "str", value |-> x.value]

Meta(status, result) == [status |-> status, result |-> result]

\* backend.get_task_meta for an id the backend has no key of
NoMeta == Meta("PENDING", None)

\* celery.states.READY_STATES, of the states this task can take
READY_STATES == {"SUCCESS", "FAILURE"}

NoRun == [pc |-> "none", args |-> NULL, molecule_smiles_list |-> <<>>]

NoResponse == [task_id |-> 0, status |-> NULL, result |-> None]

SIdle ==
    [op |-> "idle", pc |-> "idle", task_id |-> 0, smiles |-> NULL,
     cached |-> FALSE, meta |-> NoMeta, errors |-> {},
     response |-> NoResponse, kind |-> "none", http |-> 0]

(* ------------------- values of the direct calls ----------------------- *)

\* a MoleculeService object on which nothing was called yet
NoService == [rdkit_cache |-> NoMemo, calls |-> <<>>]

\* substructure_search was not called
NoMatch == [called |-> FALSE, molecules |-> <<>>, substructure |-> NULL, outcome |-> None]

(* ------------------------------ state --------------------------------- *)

VARIABLES
    store,      \* table molecules: id -> row or NoRow
    next_id,    \* the next value of the primary-key sequence
    cache,      \* Redis: key -> JSON value, for the keys that are set
    req,        \* the requests in flight: locals, position, calls made, errors logged
    names,      \* the values of the field name that the clients send, per operation
    held,       \* observer: for the ids it watches, the rows the store has held so far
    last,       \* observer: for the clients it watches, a note of the call that returned last
    broker,     \* Celery broker: the task messages waiting for a worker
    backend,    \* Celery result backend: task id -> meta, for the ids it has a key of
    worker,     \* the worker pool: task id -> locals of the task run in progress
    next_task,  \* stands for uuid(): the task id that the next delay() draws
    sreq,       \* the search request in flight: locals, position, response
    service,    \* a MoleculeService object called directly: its rdkit_cache, the calls made
    matched     \* substructure_search called directly: its arguments and its outcome

\* the Job Queue and the search request
search == <<broker, backend, worker, next_task, sreq>>

\* the functions that are called directly, outside a request
direct == <<service, matched>>

vars == <<store, next_id, cache, req, names, held, last, search, direct>>

\* the request bodies of POST /molecules/
CreatePayloads == [smiles_string : Smiles, name : names.create]

\* the request bodies of PUT /molecules/{id}: a field is a value, null, or not set
UpdatePayloads == [smiles_string : Smiles \cup {NULL, UNSET}, name : names.update]

\* what the observer notes of a call that returned: of a create its arguments
\* and its response, of any other call that it was none
Note(rec) ==
    IF rec.op = "create"
    THEN [op |-> rec.op, payload |-> rec.payload, result |-> rec.result]
    ELSE [op |-> "other", payload |-> NoPayload, result |-> NoResult]

\* the names of the request bodies: one name on create, none on update
FewNames == [create |-> {"Ethanol"}, update |-> {UNSET}]

\* the names of the request bodies: a name or null on create; a name, null or
\* nothing on update
AllNames == [create |-> {"Ethanol", NULL}, update |-> {"Aspirin", NULL, UNSET}]

\* no task was ever sent, no search request is in flight, and nothing is
\* called directly
InitSearch ==
    /\ broker = {}
    /\ backend = [t \in {} |-> NoMeta]
    /\ worker = [t \in {} |-> NoRun]
    /\ next_task = 1
    /\ sreq = SIdle
    /\ service = NoService
    /\ matched = NoMatch

Init ==
    /\ store = [i \in Ids |-> NoRow]
    /\ next_id = 1
    /\ cache = [k \in {} |-> <<>>]
    /\ req = [r \in Req |-> Idle]
    /\ names = FewNames
    /\ held = [i \in {} |-> {}]
    /\ last = [r \in {} |-> Note(Idle)]
    /\ InitSearch

\* the same start, with an observer that records every row the store holds
InitObserved ==
    /\ store = [i \in Ids |-> NoRow]
    /\ next_id = 1
    /\ cache = [k \in {} |-> <<>>]
    /\ req = [r \in Req |-> Idle]
    /\ names = FewNames
    /\ held = [i \in Ids |-> {}]
    /\ last = [r \in {} |-> Note(Idle)]
    /\ InitSearch

\* a client slot that sends nothing
Off == [Idle EXCEPT !.pc = "off"]

\* one client that sends its calls one after the other, with every kind of
\* name, and an observer of the call that returned last
InitSerial ==
    /\ store = [i \in Ids |-> NoRow]
    /\ next_id = 1
    /\ cache = [k \in {} |-> <<>>]
    /\ req = [r \in Req |-> IF r = "r1" THEN Idle ELSE Off]
    /\ names = AllNames
    /\ held = [i \in {} |-> {}]
    /\ last = [r \in {"r1"} |-> Note(Idle)]
    /\ InitSearch

\* the observer's step: it adds the rows the store holds after the step, and
\* it notes a call at the step in which its response is sent
Observe ==
    /\ held' = [i \in DOMAIN held |->
                    held[i] \cup (IF store'[i].present THEN {store'[i]} ELSE {})]
    /\ last' = [r \in DOMAIN last |->
                    IF req[r].pc = "done" /\ req'[r].pc = "idle" THEN Note(req[r]) ELSE last[r]]

\* A call that has ended hands its response over before anything else runs,
\* so a state with pc = "done" is the moment that call returns.
Running == \A q \in Req : req[q].pc # "done"

Finish(r, rec, res) == req' = [req EXCEPT ![r] = [rec EXCEPT !.pc = "done", !.result = res]]

Called(rec, c) == [rec EXCEPT !.calls = Append(@, c)]

\* self._validate_smiles(smiles) of the request's service: the call, the memo
\* it leaves, and the string it handed to Chem.MolFromSmiles, if it did
Validated(rec, smiles) ==
    [Called(rec, "validate") EXCEPT
        !.rdkit_cache = Validate(rec.rdkit_cache, smiles).rdkit_cache,
        !.parsed = IF Validate(rec.rdkit_cache, smiles).parsed THEN Append(@, smiles) ELSE @]

\* the except-branch of a cache call: logger.error, nothing raised
Logged(rec, c, raised) == [rec EXCEPT !.errors = IF raised THEN @ \cup {c} ELSE @]

(* --------------------------- the store ------------------------------- *)

\* the table without the unique constraint on smiles_string
UniqueViolationOff(id, s) == FALSE

\* Column(Text, unique=True): another row already holds this smiles_string
UniqueViolation(id, s) ==
    \E j \in Ids : j # id /\ store[j].present /\ store[j].smiles_string = s

\* Column(Text, nullable=False)
NotNullViolation(s) == s = NULL

(* --------------------------- the cache ------------------------------- *)

CacheSet(key, value) == [k \in DOMAIN cache \cup {key} |-> IF k = key THEN value ELSE cache[k]]

CacheDelete(key) == [k \in DOMAIN cache \ {key} |-> cache[k]]

(* ------------------------- create_molecule --------------------------- *)

\* service.create_molecule up to the commit of repository.add.  The INSERT
\* draws its id from the sequence before the unique index is checked, so a
\* refused INSERT uses the id up as well.
CreateAdd(r) ==
    \E p \in CreatePayloads :
        /\ Running
        /\ req[r].pc = "idle"
        /\ next_id <= MaxId
        /\ LET s == p.smiles_string
               rec == Validated([Idle EXCEPT !.op = "create", !.payload = p], s)
           IN  IF ~validate_smiles(s)
               THEN /\ Finish(r, rec, Raise("InvalidSmilesStringException"))
                    /\ UNCHANGED <<store, next_id>>
               ELSE IF UniqueViolation(0, s)
               THEN /\ Finish(r, Called(rec, "repository.add"), Raise("IntegrityError"))
                    /\ next_id' = next_id + 1
                    /\ UNCHANGED store
               ELSE /\ store' = [store EXCEPT ![next_id] = Row(s, p.name)]
                    /\ next_id' = next_id + 1
                    /\ req' = [req EXCEPT ![r] =
                                  [Called(rec, "repository.add") EXCEPT
                                      !.pc = "c_refresh", !.id = next_id]]
        /\ UNCHANGED cache
        /\ Observe
        /\ UNCHANGED <<names, search, direct>>

\* db_session.refresh(db_molecule) and the return
CreateRefresh(r) ==
    /\ Running
    /\ req[r].pc = "c_refresh"
    /\ IF store[req[r].id].present
       THEN Finish(r, req[r], Ok(MoleculeInDB(req[r].id, store[req[r].id])))
       ELSE Finish(r, req[r], Raise("InvalidRequestError"))
    /\ UNCHANGED <<store, next_id, cache>>
    /\ Observe
    /\ UNCHANGED <<names, search, direct>>

(* ------------------------ get_molecule_by_id ------------------------- *)

\* `if cached_data:` -- the key is set and its value is not empty
CacheHit(id) == cache_key(id) \in DOMAIN cache /\ cache[cache_key(id)] # <<>>

\* GetCacheRead without its try/except: the error of cache.get reaches the caller
GetCacheReadRaising(r) ==
    \E id \in Ids, raised \in BOOLEAN :
        /\ Running
        /\ req[r].pc = "idle"
        /\ LET rec == Logged(Called([Idle EXCEPT !.op = "get", !.id = id], "cache.get"),
                             "cache.get", raised)
           IN  IF raised
               THEN Finish(r, rec, Raise("ConnectionError"))
               ELSE IF CacheHit(id)
               THEN Finish(r, rec, Ok(model_validate_json(cache[cache_key(id)])))
               ELSE req' = [req EXCEPT ![r] = [rec EXCEPT !.pc = "g_store"]]
        /\ UNCHANGED <<store, next_id, cache>>
        /\ Observe
        /\ UNCHANGED <<names, search, direct>>

\* GetCacheRead writing the entry back on a hit, which restarts its time-to-live
GetCacheReadRefreshing(r) ==
    \E id \in Ids, raised \in BOOLEAN :
        /\ Running
        /\ req[r].pc = "idle"
        /\ LET rec == Logged(Called([Idle EXCEPT !.op = "get", !.id = id], "cache.get"),
                             "cache.get", raised)
           IN  IF ~raised /\ CacheHit(id)
               THEN Finish(r, Called(rec, "cache.set"),
                           Ok(model_validate_json(cache[cache_key(id)])))
               ELSE req' = [req EXCEPT ![r] = [rec EXCEPT !.pc = "g_store"]]
        /\ UNCHANGED <<store, next_id, cache>>
        /\ Observe
        /\ UNCHANGED <<names, search, direct>>

\* cache.get(cache_key) and, on a hit, the return
GetCacheRead(r) ==
    \E id \in Ids, raised \in BOOLEAN :
        /\ Running
        /\ req[r].pc = "idle"
        /\ LET rec == Logged(Called([Idle EXCEPT !.op = "get", !.id = id], "cache.get"),
                             "cache.get", raised)
           IN  IF ~raised /\ CacheHit(id)
               THEN Finish(r, rec, Ok(model_validate_json(cache[cache_key(id)])))
               ELSE req' = [req EXCEPT ![r] = [rec EXCEPT !.pc = "g_store"]]
        /\ UNCHANGED <<store, next_id, cache>>
        /\ Observe
        /\ UNCHANGED <<names, search, direct>>

\* repository.get_by_id(molecule_id) after a miss
GetStoreRead(r) ==
    /\ Running
    /\ req[r].pc = "g_store"
    /\ LET rec == Called(req[r], "repository.get_by_id")
       IN  IF ~store[rec.id].present
           THEN Finish(r, rec, Raise("MoleculeNotFoundException"))
           ELSE req' = [req EXCEPT ![r] =
                           [rec EXCEPT !.pc = "g_cacheset",
                                       !.db_molecule = MoleculeInDB(rec.id, store[rec.id])]]
    /\ UNCHANGED <<store, next_id, cache>>
    /\ Observe
    /\ UNCHANGED <<names, search, direct>>

\* GetCacheSet with a key that lacks the id ("molecule:")
GetCacheSetUnkeyed(r) ==
    \E raised \in BOOLEAN :
        /\ Running
        /\ req[r].pc = "g_cacheset"
        /\ LET rec == Logged(Called(req[r], "cache.set"), "cache.set", raised)
           IN  /\ Finish(r, rec, Ok(rec.db_molecule))
               /\ cache' = IF raised
                           THEN cache
                           ELSE CacheSet(<<"molecule">>, model_dump_json(rec.db_molecule))
        /\ UNCHANGED <<store, next_id>>
        /\ Observe
        /\ UNCHANGED <<names, search, direct>>

\* cache.set(cache_key, molecule_data.model_dump_json(), ex=3600) and the return
GetCacheSet(r) ==
    \E raised \in BOOLEAN :
        /\ Running
        /\ req[r].pc = "g_cacheset"
        /\ LET rec == Logged(Called(req[r], "cache.set"), "cache.set", raised)
           IN  /\ Finish(r, rec, Ok(rec.db_molecule))
               /\ cache' = IF raised
                           THEN cache
                           ELSE CacheSet(cache_key(rec.id), model_dump_json(rec.db_molecule))
        /\ UNCHANGED <<store, next_id>>
        /\ Observe
        /\ UNCHANGED <<names, search, direct>>

(* -------------------------- update_molecule -------------------------- *)

\* `if molecule_update.smiles_string and ...`: the payloads that get validated
UpdateValidates(p) == Truthy(p.smiles_string)

\* update_molecule without its validation
UpdateNeverRejects(p) == FALSE

\* the validation guard of service.update_molecule
UpdateRejects(p) == UpdateValidates(p) /\ ~validate_smiles(p.smiles_string)

\* the validation and repository.update up to its get_by_id
UpdateSelect(r) ==
    \E id \in Ids, p \in UpdatePayloads :
        /\ Running
        /\ req[r].pc = "idle"
        /\ LET new == [Idle EXCEPT !.op = "update", !.id = id, !.payload = p]
               rec == IF UpdateValidates(p) THEN Validated(new, p.smiles_string) ELSE new
               sel == Called(rec, "repository.update")
           IN  IF UpdateRejects(p)
               THEN Finish(r, rec, Raise("InvalidSmilesStringException"))
               ELSE IF ~store[id].present
               THEN Finish(r, sel, Raise("MoleculeNotFoundException"))
               ELSE IF update_data(p) = {}
               THEN req' = [req EXCEPT ![r] =
                               [sel EXCEPT !.pc = "u_invalidate",
                                           !.db_molecule = MoleculeInDB(id, store[id])]]
               ELSE req' = [req EXCEPT ![r] = [sel EXCEPT !.pc = "u_write"]]
        /\ UNCHANGED <<store, next_id, cache>>
        /\ Observe
        /\ UNCHANGED <<names, search, direct>>

\* the UPDATE of a model_dump() without exclude_unset: an unset field is
\* written as null
UpdatedEveryField(row, p) ==
    [present |-> TRUE,
     smiles_string |-> IF p.smiles_string = UNSET THEN NULL ELSE p.smiles_string,
     name |-> IF p.name = UNSET THEN NULL ELSE p.name]

\* the row after UPDATE molecules SET **update_data
Updated(row, p) ==
    [present |-> TRUE,
     smiles_string |-> IF p.smiles_string = UNSET THEN row.smiles_string ELSE p.smiles_string,
     name |-> IF p.name = UNSET THEN row.name ELSE p.name]

\* the UPDATE statement of repository.update and its commit
UpdateWrite(r) ==
    /\ Running
    /\ req[r].pc = "u_write"
    /\ LET rec == Called(req[r], "UPDATE")
           row == Updated(store[rec.id], rec.payload)
       IN  IF ~store[rec.id].present
           THEN /\ req' = [req EXCEPT ![r] = [rec EXCEPT !.pc = "u_refresh"]]
                /\ UNCHANGED store
           ELSE IF NotNullViolation(row.smiles_string) \/ UniqueViolation(rec.id, row.smiles_string)
           THEN /\ Finish(r, rec, Raise("IntegrityError"))
                /\ UNCHANGED store
           ELSE /\ store' = [store EXCEPT ![rec.id] = row]
                /\ req' = [req EXCEPT ![r] = [rec EXCEPT !.pc = "u_refresh"]]
    /\ UNCHANGED <<next_id, cache>>
    /\ Observe
    /\ UNCHANGED <<names, search, direct>>

\* db_session.refresh(db_molecule) of repository.update
UpdateRefresh(r) ==
    /\ Running
    /\ req[r].pc = "u_refresh"
    /\ IF store[req[r].id].present
       THEN req' = [req EXCEPT ![r] =
                       [@ EXCEPT !.pc = "u_invalidate", !.payload = NoPayload,
                                 !.db_molecule = MoleculeInDB(req[r].id, store[req[r].id])]]
       ELSE Finish(r, req[r], Raise("InvalidRequestError"))
    /\ UNCHANGED <<store, next_id, cache>>
    /\ Observe
    /\ UNCHANGED <<names, search, direct>>

\* UpdateInvalidate deleting a mistyped key ("molecules:<id>")
UpdateInvalidateWrongKey(r) ==
    \E raised \in BOOLEAN :
        /\ Running
        /\ req[r].pc = "u_invalidate"
        /\ LET rec == Logged(Called(req[r], "cache.delete"), "cache.delete", raised)
           IN  /\ Finish(r, rec, Ok(rec.db_molecule))
               /\ cache' = IF raised THEN cache ELSE CacheDelete(<<"molecules", rec.id>>)
        /\ UNCHANGED <<store, next_id>>
        /\ Observe
        /\ UNCHANGED <<names, search, direct>>

\* cache.delete(cache_key) of service.update_molecule and the return
UpdateInvalidate(r) ==
    \E raised \in BOOLEAN :
        /\ Running
        /\ req[r].pc = "u_invalidate"
        /\ LET rec == Logged(Called(req[r], "cache.delete"), "cache.delete", raised)
           IN  /\ Finish(r, rec, Ok(rec.db_molecule))
               /\ cache' = IF raised THEN cache ELSE CacheDelete(cache_key(rec.id))
        /\ UNCHANGED <<store, next_id>>
        /\ Observe
        /\ UNCHANGED <<names, search, direct>>

(* -------------------------- delete_molecule -------------------------- *)

\* delete_molecule that ignores the answer of repository.delete
DeleteSelectUnchecked(r) ==
    \E id \in Ids :
        /\ Running
        /\ req[r].pc = "idle"
        /\ LET rec == Called([Idle EXCEPT !.op = "delete", !.id = id], "repository.delete")
           IN  IF ~store[id].present
               THEN req' = [req EXCEPT ![r] = [rec EXCEPT !.pc = "d_invalidate"]]
               ELSE req' = [req EXCEPT ![r] = [rec EXCEPT !.pc = "d_write"]]
        /\ UNCHANGED <<store, next_id, cache>>
        /\ Observe
        /\ UNCHANGED <<names, search, direct>>

\* repository.delete up to its get_by_id
DeleteSelect(r) ==
    \E id \in Ids :
        /\ Running
        /\ req[r].pc = "idle"
        /\ LET rec == Called([Idle EXCEPT !.op = "delete", !.id = id], "repository.delete")
           IN  IF ~store[id].present
               THEN Finish(r, rec, Raise("MoleculeNotFoundException"))
               ELSE req' = [req EXCEPT ![r] = [rec EXCEPT !.pc = "d_write"]]
        /\ UNCHANGED <<store, next_id, cache>>
        /\ Observe
        /\ UNCHANGED <<names, search, direct>>

\* the DELETE statement of repository.delete and its commit
DeleteWrite(r) ==
    /\ Running
    /\ req[r].pc = "d_write"
    /\ store' = [store EXCEPT ![req[r].id] = NoRow]
    /\ req' = [req EXCEPT ![r] = [Called(@, "DELETE") EXCEPT !.pc = "d_invalidate"]]
    /\ UNCHANGED <<next_id, cache>>
    /\ Observe
    /\ UNCHANGED <<names, search, direct>>

\* cache.delete(cache_key) of service.delete_molecule and the return
DeleteInvalidate(r) ==
    \E raised \in BOOLEAN :
        /\ Running
        /\ req[r].pc = "d_invalidate"
        /\ LET rec == Logged(Called(req[r], "cache.delete"), "cache.delete", raised)
           IN  /\ Finish(r, rec, Ok(NoMolecule))
               /\ cache' = IF raised THEN cache ELSE CacheDelete(cache_key(rec.id))
        /\ UNCHANGED <<store, next_id>>
        /\ Observe
        /\ UNCHANGED <<names, search, direct>>

(* --------------------------- list_molecules -------------------------- *)

\* list_all that leaves out .offset(skip)
list_all_from_first(table, skip, limit) ==
    LET ids == SelectSeq([i \in DOMAIN table |-> i], LAMBDA i : table[i].present)
        to == IF limit < Len(ids) THEN limit ELSE Len(ids)
    IN  [k \in 1 .. to |-> MoleculeInDB(ids[k], table[ids[k]])]

\* MoleculeRepository.list_all: select(Molecule).order_by(asc(Molecule.id))
\* .offset(skip).limit(limit), each row taken through MoleculeInDB.model_validate
list_all(table, skip, limit) ==
    LET ids == SelectSeq([i \in DOMAIN table |-> i], LAMBDA i : table[i].present)
        to == IF skip + limit < Len(ids) THEN skip + limit ELSE Len(ids)
        page == SubSeq(ids, skip + 1, to)
    IN  [k \in 1 .. Len(page) |-> MoleculeInDB(page[k], table[page[k]])]

\* Query(0, ge=0): the values of skip a client sends
Skips == 0 .. MaxRows

\* Query(100, ge=1, le=1000): the values of limit a client sends
Limits == 1 .. MaxRows

\* service.list_molecules(skip, limit): one statement, and the return
ListAll(r) ==
    \E skip \in Skips, limit \in Limits :
        /\ Running
        /\ req[r].pc = "idle"
        /\ LET rec == Called([Idle EXCEPT !.op = "list", !.skip = skip, !.limit = limit],
                             "repository.list_all")
           IN  Finish(r, [rec EXCEPT !.items = list_all(store, skip, limit)], Ok(NoMolecule))
        /\ UNCHANGED <<store, next_id, cache>>
        /\ Observe
        /\ UNCHANGED <<names, search, direct>>

(* ------------------------------ router ------------------------------- *)

\* the except clauses of add_molecule: the status code for the exception e
add_molecule(e) == IF e = "InvalidSmilesStringException" THEN 400 ELSE 500

\* get_molecule without its clause for MoleculeNotFoundException
get_molecule_unhandled(e) == 500

\* the except clauses of get_molecule
get_molecule(e) == IF e = "MoleculeNotFoundException" THEN 404 ELSE 500

\* the except clause of list_molecules
list_molecules(e) == 500

\* the except clauses of update_molecule
update_molecule(e) ==
    IF e = "MoleculeNotFoundException" THEN 404
    ELSE IF e = "InvalidSmilesStringException" THEN 400
    ELSE 500

\* the except clauses of delete_molecule
delete_molecule(e) == IF e = "MoleculeNotFoundException" THEN 404 ELSE 500

\* the status code of the response to the call that request rec has ended:
\* the route's status_code when the service returned, and the code of the
\* HTTPException its except clauses raise when the service raised
StatusCode(rec) ==
    LET e == rec.result.kind
    IN  CASE rec.op = "create" -> IF e = "ok" THEN 201 ELSE add_molecule(e)
          [] rec.op = "get"    -> IF e = "ok" THEN 200 ELSE get_molecule(e)
          [] rec.op = "list"   -> IF e = "ok" THEN 200 ELSE list_molecules(e)
          [] rec.op = "update" -> IF e = "ok" THEN 200 ELSE update_molecule(e)
          [] rec.op = "delete" -> IF e = "ok" THEN 204 ELSE delete_molecule(e)

(* --------------------------- environment ----------------------------- *)

\* the response is sent and the request's session is closed
Return(r) ==
    /\ req[r].pc = "done"
    /\ req' = [req EXCEPT ![r] = Idle]
    /\ UNCHANGED <<store, next_id, cache>>
    /\ Observe
    /\ UNCHANGED <<names, search, direct>>

\* the key k, set with ex=3600, reaches its time-to-live and Redis drops it
Expired(k) ==
    /\ Running
    /\ k \in DOMAIN cache
    /\ cache' = CacheDelete(k)
    /\ UNCHANGED <<store, next_id, req>>
    /\ Observe
    /\ UNCHANGED <<names, search, direct>>

\* a key set with ex=3600 reaches its time-to-live
Expire == \E k \in DOMAIN cache : Expired(k)

(* --------------------------- the Job Queue ---------------------------- *)

\* backend.get_task_meta(task_id): an id without a key reads as PENDING
get_task_meta(t) == IF t \in DOMAIN backend THEN backend[t] ELSE NoMeta

\* backend.store_result(task_id, result, state)
StoreResult(t, meta) ==
    [k \in DOMAIN backend \cup {t} |-> IF k = t THEN meta ELSE backend[k]]

\* the task run of t has ended and its message is acknowledged
Ended(t) == [k \in DOMAIN worker \ {t} |-> worker[k]]

\* A search call that has ended hands its response over before anything else
\* of the Job Queue runs.
Serving == Running /\ sreq.pc # "done"

\* the service call ends: with its return value, taken by the router as the
\* response of status code http, or with the exception e, answered 400 or 500
SFinish(rec, e, http) == sreq' = [rec EXCEPT !.pc = "done", !.kind = e, !.http = http]

(* ------------------------- start_search_task -------------------------- *)

\* the validation and run_substructure_search.delay(substructure_smiles)
SubmitSend ==
    \E s \in Smiles, raised \in BOOLEAN :
        /\ Serving
        /\ sreq.pc = "idle"
        /\ next_task <= MaxTasks
        /\ LET rec == [SIdle EXCEPT !.op = "submit", !.smiles = s]
           IN  IF ~validate_smiles(s)
               THEN /\ SFinish(rec, "InvalidSmilesStringException", 400)
                    /\ UNCHANGED <<broker, next_task>>
               ELSE IF raised
               THEN /\ SFinish([rec EXCEPT !.errors = {"delay"}], "OperationalError", 500)
                    /\ UNCHANGED <<broker, next_task>>
               ELSE /\ broker' = broker \cup {[id |-> next_task, args |-> s]}
                    /\ next_task' = next_task + 1
                    /\ sreq' = [rec EXCEPT !.pc = "s_status", !.task_id = next_task]
        /\ UNCHANGED <<backend, worker>>
        /\ UNCHANGED <<store, next_id, cache, req, names, held, last, direct>>

\* SubmitStatus answering with the state a new task starts in, without
\* asking the backend
SubmitStatusInitial ==
    /\ Serving
    /\ sreq.pc = "s_status"
    /\ SFinish([sreq EXCEPT !.response =
                   [task_id |-> sreq.task_id, status |-> "PENDING", result |-> None]],
               "ok", 202)
    /\ UNCHANGED <<broker, backend, worker, next_task>>
    /\ UNCHANGED <<store, next_id, cache, req, names, held, last, direct>>

\* task.status, read from the result backend, and the return of {task_id, status}
SubmitStatus ==
    \E raised \in BOOLEAN :
        /\ Serving
        /\ sreq.pc = "s_status"
        /\ IF raised
           THEN SFinish([sreq EXCEPT !.errors = {"status"}], "OperationalError", 500)
           ELSE SFinish([sreq EXCEPT !.response =
                            [task_id |-> sreq.task_id,
                             status |-> get_task_meta(sreq.task_id).status,
                             result |-> None]],
                        "ok", 202)
        /\ UNCHANGED <<broker, backend, worker, next_task>>
        /\ UNCHANGED <<store, next_id, cache, req, names, held, last, direct>>

(* ----------------------- get_search_task_result ----------------------- *)

\* AsyncResult._get_task_meta: the meta this result object has kept, or else
\* the meta the backend holds now
TaskMeta(rec) == IF rec.cached THEN rec.meta ELSE get_task_meta(rec.task_id)

\* AsyncResult._maybe_set_cache: a meta in a ready state is kept by the object
Kept(rec) ==
    LET meta == TaskMeta(rec)
    IN  IF meta.status \in READY_STATES
        THEN [rec EXCEPT !.cached = TRUE, !.meta = meta]
        ELSE rec

\* a read of the backend can raise only when the object has kept no meta
CanRaise(rec, raised) == raised => ~rec.cached

\* AsyncResult(task_id) and the read of task_result.status
PollStatus ==
    \E t \in TaskIds, raised \in BOOLEAN :
        /\ Serving
        /\ sreq.pc = "idle"
        /\ LET rec == [SIdle EXCEPT !.op = "poll", !.task_id = t]
           IN  IF raised
               THEN SFinish([rec EXCEPT !.errors = {"status"}], "OperationalError", 500)
               ELSE sreq' = [Kept(rec) EXCEPT
                                !.pc = "p_ready",
                                !.response = [task_id |-> t,
                                              status |-> TaskMeta(rec).status,
                                              result |-> None]]
        /\ UNCHANGED <<broker, backend, worker, next_task>>
        /\ UNCHANGED <<store, next_id, cache, req, names, held, last, direct>>

\* task_result.result if task_result.ready() else None
PollReady ==
    \E raised \in BOOLEAN :
        /\ Serving
        /\ sreq.pc = "p_ready"
        /\ CanRaise(sreq, raised)
        /\ IF raised
           THEN SFinish([sreq EXCEPT !.errors = {"ready"}], "OperationalError", 500)
           ELSE sreq' = [Kept(sreq) EXCEPT
                            !.pc = "p_failed",
                            !.response.result =
                                IF TaskMeta(sreq).status \in READY_STATES
                                THEN TaskMeta(sreq).result
                                ELSE None]
        /\ UNCHANGED <<broker, backend, worker, next_task>>
        /\ UNCHANGED <<store, next_id, cache, req, names, held, last, direct>>

\* SearchResultResponse admits the value as its field result: Optional[List[str]]
ResultValidates(result) == result.type \in {"none", "list"}

\* the status code of get_search_results for the return value of the service:
\* a value the response model refuses is a ResponseValidationError, answered 500
ResponseCode(response) == IF ResultValidates(response.result) THEN 200 ELSE 500

\* `if task_result.failed()`, str(task_result.result), and the return
PollFailed ==
    \E raised \in BOOLEAN :
        /\ Serving
        /\ sreq.pc = "p_failed"
        /\ CanRaise(sreq, raised)
        /\ IF raised
           THEN SFinish([sreq EXCEPT !.errors = {"failed"}], "OperationalError", 500)
           ELSE LET rec == Kept(sreq)
                    out == IF TaskMeta(sreq).status = "FAILURE"
                           THEN [rec EXCEPT !.response.result = Str(TaskMeta(sreq).result)]
                           ELSE rec
                IN  SFinish(out, "ok", ResponseCode(out.response))
        /\ UNCHANGED <<broker, backend, worker, next_task>>
        /\ UNCHANGED <<store, next_id, cache, req, names, held, last, direct>>

\* the response of the search request is sent
SReturn ==
    /\ sreq.pc = "done"
    /\ sreq' = SIdle
    /\ UNCHANGED <<broker, backend, worker, next_task>>
    /\ UNCHANGED <<store, next_id, cache, req, names, held, last, direct>>

(* ---------------------------- Search Job ------------------------------ *)

\* get_all_smiles_stream: SELECT smiles_string ... ORDER BY id, as a list
get_all_smiles_from_db(table) ==
    LET rows == SelectSeq(table, LAMBDA row : row.present)
    IN  [i \in 1 .. Len(rows) |-> rows[i].smiles_string]

\* substructure_search that looks at the query only when there is a
\* candidate to test it on
substructure_search_lazy(molecules, substructure) ==
    IF molecules = <<>>
    THEN List(<<>>)
    ELSE IF ~MolFromSmiles(substructure)
    THEN Exc("Invalid substructure")
    ELSE List(SelectSeq(molecules,
                        LAMBDA molecule : /\ MolFromSmiles(molecule)
                                          /\ HasSubstructMatch(molecule, substructure)))

\* substructure_search that returns no match for a query it cannot parse and
\* does not test the candidates for containment
substructure_search_lenient(molecules, substructure) ==
    IF ~MolFromSmiles(substructure)
    THEN List(<<>>)
    ELSE List(SelectSeq(molecules, LAMBDA molecule : MolFromSmiles(molecule)))

\* substructure_search(molecules, substructure): the list of matches, or the
\* ValueError it raises
substructure_search(molecules, substructure) ==
    IF ~MolFromSmiles(substructure)
    THEN Exc("Invalid substructure")
    ELSE List(SelectSeq(molecules,
                        LAMBDA molecule : /\ MolFromSmiles(molecule)
                                          /\ HasSubstructMatch(molecule, substructure)))

\* the state and result the worker stores for what the task returned or raised
Outcome(result) ==
    IF result.type = "exception" THEN Meta("FAILURE", result) ELSE Meta("SUCCESS", result)

\* a worker takes a message off the broker and, with task_track_started,
\* stores the state STARTED
JobStart ==
    \E m \in broker :
        /\ Serving
        /\ broker' = broker \ {m}
        /\ worker' = [k \in DOMAIN worker \cup {m.id} |->
                         IF k = m.id
                         THEN [pc |-> "streaming", args |-> m.args,
                               molecule_smiles_list |-> <<>>]
                         ELSE worker[k]]
        /\ backend' = StoreResult(m.id, Meta("STARTED", None))
        /\ UNCHANGED <<next_task, sreq>>
        /\ UNCHANGED <<store, next_id, cache, req, names, held, last, direct>>

\* JobStream of a task declared with autoretry_for: a run that raised is
\* sent again
JobStreamRetrying ==
    \E t \in DOMAIN worker, raised \in BOOLEAN :
        /\ Serving
        /\ worker[t].pc = "streaming"
        /\ LET list == get_all_smiles_from_db(store)
           IN  IF raised
               THEN /\ backend' = StoreResult(t, Outcome(Exc("OperationalError")))
                    /\ worker' = Ended(t)
                    /\ broker' = broker \cup {[id |-> t, args |-> worker[t].args]}
               ELSE IF list = <<>>
               THEN /\ backend' = StoreResult(t, Outcome(List(<<>>)))
                    /\ worker' = Ended(t)
                    /\ UNCHANGED broker
               ELSE /\ worker' = [worker EXCEPT ![t] =
                                     [@ EXCEPT !.pc = "matching",
                                               !.molecule_smiles_list = list]]
                    /\ UNCHANGED <<backend, broker>>
        /\ UNCHANGED <<next_task, sreq>>
        /\ UNCHANGED <<store, next_id, cache, req, names, held, last, direct>>

\* JobStream without `if not molecule_smiles_list: return []`: the matcher is
\* called on the empty list as well
JobStreamUnguarded ==
    \E t \in DOMAIN worker, raised \in BOOLEAN :
        /\ Serving
        /\ worker[t].pc = "streaming"
        /\ LET list == get_all_smiles_from_db(store)
           IN  IF raised
               THEN /\ backend' = StoreResult(t, Outcome(Exc("OperationalError")))
                    /\ worker' = Ended(t)
               ELSE /\ worker' = [worker EXCEPT ![t] =
                                     [@ EXCEPT !.pc = "matching",
                                               !.molecule_smiles_list = list]]
                    /\ UNCHANGED backend
        /\ UNCHANGED <<broker, next_task, sreq>>
        /\ UNCHANGED <<store, next_id, cache, req, names, held, last, direct>>

\* asyncio.run(get_all_smiles_from_db()), and the return of [] for an empty list
JobStream ==
    \E t \in DOMAIN worker, raised \in BOOLEAN :
        /\ Serving
        /\ worker[t].pc = "streaming"
        /\ LET list == get_all_smiles_from_db(store)
           IN  IF raised
               THEN /\ backend' = StoreResult(t, Outcome(Exc("OperationalError")))
                    /\ worker' = Ended(t)
               ELSE IF list = <<>>
               THEN /\ backend' = StoreResult(t, Outcome(List(<<>>)))
                    /\ worker' = Ended(t)
               ELSE /\ worker' = [worker EXCEPT ![t] =
                                     [@ EXCEPT !.pc = "matching",
                                               !.molecule_smiles_list = list]]
                    /\ UNCHANGED backend
        /\ UNCHANGED <<broker, next_task, sreq>>
        /\ UNCHANGED <<store, next_id, cache, req, names, held, last, direct>>

\* substructure_search(molecule_smiles_list, substructure_smiles), and the
\* state the worker stores for its return value or its exception
JobFinish ==
    \E t \in DOMAIN worker :
        /\ Serving
        /\ worker[t].pc = "matching"
        /\ backend' = StoreResult(t, Outcome(substructure_search(
                                                 worker[t].molecule_smiles_list,
                                                 worker[t].args)))
        /\ worker' = Ended(t)
        /\ UNCHANGED <<broker, next_task, sreq>>
        /\ UNCHANGED <<store, next_id, cache, req, names, held, last, direct>>

Next ==
    \/ \E r \in Req :
        \/ CreateAdd(r)
        \/ CreateRefresh(r)
        \/ GetCacheRead(r)
        \/ GetStoreRead(r)
        \/ GetCacheSet(r)
        \/ UpdateSelect(r)
        \/ UpdateWrite(r)
        \/ UpdateRefresh(r)
        \/ UpdateInvalidate(r)
        \/ DeleteSelect(r)
        \/ DeleteWrite(r)
        \/ DeleteInvalidate(r)
        \/ Return(r)
    \/ Expire

Spec == Init /\ [][Next]_vars

\* the same program watched by the observer of the store's rows
SpecObserved == InitObserved /\ [][Next]_vars

\* the same program with one client, whose calls follow one another
SpecSerial == InitSerial /\ [][Next]_vars

\* the store holds one record, created before, and the sequence hands out no
\* further id
InitExpiry ==
    /\ store = [i \in Ids |-> IF i = 1 THEN Row("CCO", "Ethanol") ELSE NoRow]
    /\ next_id = MaxId + 1
    /\ cache = [k \in {} |-> <<>>]
    /\ req = [r \in Req |-> Idle]
    /\ names = FewNames
    /\ held = [i \in {} |-> {}]
    /\ last = [r \in {} |-> Note(Idle)]
    /\ InitSearch

\* two clients that get, update and delete
NextExpiry ==
    \/ \E r \in Req :
        \/ GetCacheRead(r)
        \/ GetStoreRead(r)
        \/ GetCacheSet(r)
        \/ UpdateSelect(r)
        \/ UpdateWrite(r)
        \/ UpdateRefresh(r)
        \/ UpdateInvalidate(r)
        \/ DeleteSelect(r)
        \/ DeleteWrite(r)
        \/ DeleteInvalidate(r)
        \/ Return(r)
    \/ Expire

\* That program as time passes.  A response that is ready is sent: the
\* route returns without another await.  A key that stays set is dropped by
\* Redis when its time-to-live has run out, whatever the requests do: the
\* clock does not wait for them, so the expiry of a key that is enabled again
\* and again does happen.
SpecExpiry ==
    /\ InitExpiry
    /\ [][NextExpiry]_vars
    /\ \A r \in Req : WF_vars(Return(r))
    /\ \A id \in Ids : SF_vars(Expired(cache_key(id)))

(* ------------------- the service with the Job Queue ------------------- *)

\* one client that creates records, one that submits and polls searches, and
\* the workers
InitQueue ==
    /\ store = [i \in Ids |-> NoRow]
    /\ next_id = 1
    /\ cache = [k \in {} |-> <<>>]
    /\ req = [r \in Req |-> IF r = "r1" THEN Idle ELSE Off]
    /\ names = FewNames
    /\ held = [i \in {} |-> {}]
    /\ last = [r \in {} |-> Note(Idle)]
    /\ InitSearch

NextQueue ==
    \/ \E r \in Req :
        \/ CreateAdd(r)
        \/ CreateRefresh(r)
        \/ Return(r)
    \/ SubmitSend
    \/ SubmitStatus
    \/ PollStatus
    \/ PollReady
    \/ PollFailed
    \/ SReturn
    \/ JobStart
    \/ JobStream
    \/ JobFinish

SpecQueue == InitQueue /\ [][NextQueue]_vars

\* The same with a worker that keeps taking steps.  The workers are processes
\* of their own: they do not wait for the API, so a step of theirs that is
\* enabled again and again is taken; the API sends the responses it has ready.
SpecQueueFair ==
    /\ InitQueue
    /\ [][NextQueue]_vars
    /\ \A r \in Req : WF_vars(Return(r))
    /\ WF_vars(SReturn)
    /\ SF_vars(JobStart)
    /\ SF_vars(JobStream)
    /\ SF_vars(JobFinish)

(* ------------------ the Search Job on a given table ------------------- *)

\* the candidates of the search tests, one of them unparseable
Candidates == {"CCO", "c1ccccc1", "CC(=O)O", "CC(=O)Oc1ccccc1C(=O)O", "invalid-smiles"}

\* the queries of the search tests, one of them unparseable
Queries == {"c1ccccc1", "C(=O)O", "F", "invalid-smiles"}

\* the tables that the columns of Molecule admit: smiles_string not null, unique
Tables ==
    {table \in [1 .. MaxRows -> {NoRow} \cup {Row(s, NULL) : s \in Candidates}] :
        \A i, j \in 1 .. MaxRows :
            i # j /\ table[i].present /\ table[j].present =>
                table[i].smiles_string # table[j].smiles_string}

\* a worker finds one message on the broker; the table is whatever the
\* schema admits, since the task takes the rows as it finds them
InitJob ==
    /\ store \in Tables
    /\ next_id = MaxRows + 1
    /\ cache = [k \in {} |-> <<>>]
    /\ req = [r \in Req |-> Off]
    /\ names = FewNames
    /\ held = [i \in {} |-> {}]
    /\ last = [r \in {} |-> Note(Idle)]
    /\ \E q \in Queries : broker = {[id |-> 1, args |-> q]}
    /\ backend = [t \in {} |-> NoMeta]
    /\ worker = [t \in {} |-> NoRun]
    /\ next_task = 2
    /\ sreq = SIdle
    /\ service = NoService
    /\ matched = NoMatch

NextJob ==
    \/ JobStart
    \/ JobStream
    \/ JobFinish

SpecJob == InitJob /\ [][NextJob]_vars

\* The same job with a worker that keeps taking steps: a message on the
\* broker is taken, and a task run that can go on does go on.
SpecJobFair ==
    /\ InitJob
    /\ [][NextJob]_vars
    /\ WF_vars(JobStart)
    /\ WF_vars(JobStream)
    /\ WF_vars(JobFinish)

(* ------------------- the listing on a given table --------------------- *)

\* one client that lists and gets the records of a table, which is whatever
\* the schema admits
InitList ==
    /\ store \in Tables
    /\ next_id = MaxRows + 1
    /\ cache = [k \in {} |-> <<>>]
    /\ req = [r \in Req |-> IF r = "r1" THEN Idle ELSE Off]
    /\ names = FewNames
    /\ held = [i \in {} |-> {}]
    /\ last = [r \in {} |-> Note(Idle)]
    /\ InitSearch

NextList ==
    \/ \E r \in Req :
        \/ ListAll(r)
        \/ GetCacheRead(r)
        \/ GetStoreRead(r)
        \/ GetCacheSet(r)
        \/ Return(r)
    \/ Expire

SpecList == InitList /\ [][NextList]_vars

(* --------------------- the matcher called directly -------------------- *)

\* the candidate lists a caller can pass: every list of at most MaxRows
\* candidates, the empty one and lists with repetitions included
CandidateLists == UNION {[1 .. n -> Candidates] : n \in 0 .. MaxRows}

\* matches = substructure_search(molecules, substructure), as the unit tests
\* and the task call it
Match ==
    \E molecules \in CandidateLists, substructure \in Queries :
        /\ ~matched.called
        /\ matched' = [called |-> TRUE, molecules |-> molecules,
                       substructure |-> substructure,
                       outcome |-> substructure_search(molecules, substructure)]
        /\ UNCHANGED <<store, next_id, cache, req, names, held, last, search, service>>

\* no request and no job runs: a function is called directly
InitDirect ==
    /\ store = [i \in Ids |-> NoRow]
    /\ next_id = 1
    /\ cache = [k \in {} |-> <<>>]
    /\ req = [r \in Req |-> Off]
    /\ names = FewNames
    /\ held = [i \in {} |-> {}]
    /\ last = [r \in {} |-> Note(Idle)]
    /\ InitSearch

NextMatcher == Match

SpecMatcher == InitDirect /\ [][NextMatcher]_vars

(* -------------------- the validator called directly ------------------ *)

\* the number of validate calls made on one service object
MaxCalls == 4

\* self._validate_smiles(smiles) on a service object that stays: the memo it
\* leaves and, of each call, the argument, the value returned and whether the
\* string was parsed
ValidateCall ==
    \E smiles \in Smiles :
        /\ Len(service.calls) < MaxCalls
        /\ LET v == Validate(service.rdkit_cache, smiles)
           IN  service' = [rdkit_cache |-> v.rdkit_cache,
                           calls |-> Append(service.calls,
                                            [smiles |-> smiles, returned |-> v.is_valid,
                                             parsed |-> v.parsed])]
        /\ UNCHANGED <<store, next_id, cache, req, names, held, last, search, matched>>

NextValidator == ValidateCall

SpecValidator == InitDirect /\ [][NextValidator]_vars

(* ------------------------------ claims -------------------------------- *)

Has(rec, c) == \E i \in DOMAIN rec.calls : rec.calls[i] = c

\* the call op of request r returns in this state
Returned(r, op) == req[r].pc = "done" /\ req[r].op = op

ReturnedOk(r, op) == Returned(r, op) /\ req[r].result.kind = "ok"

Mutated(r) == ReturnedOk(r, "update") \/ ReturnedOk(r, "delete")

Cached(id) == cache_key(id) \in DOMAIN cache

Hit(r) == ReturnedOk(r, "get") /\ ~Has(req[r], "repository.get_by_id")

\* the get of request r missed the cache and returns what it read from the store
Missed(r) == ReturnedOk(r, "get") /\ Has(req[r], "repository.get_by_id")

AsRow(m) == Row(m.smiles_string, m.name)

C2_ReadsTheRow ==
    \A r \in Req :
        req[r].pc = "g_store" /\ req'[r].pc = "g_cacheset" =>
            /\ store[req[r].id].present
            /\ req'[r].db_molecule = MoleculeInDB(req[r].id, store[req[r].id])

\* every record a get(id) returns is a record of id that the store has held
C2_ReturnsHeld ==
    \A r \in Req :
        ReturnedOk(r, "get") =>
            /\ req[r].result.value.id = req[r].id
            /\ AsRow(req[r].result.value) \in held[req[r].id]
            /\ Missed(r) => req[r].result.value = req[r].db_molecule

C3_NotFoundWithoutRow ==
    \A r \in Req :
        /\ Returned(r, "get")
        /\ ~store[req[r].id].present
        /\ req[r].db_molecule = NoMolecule
        => req[r].result.kind = "MoleculeNotFoundException"

\* the record the JSON value j of the cache stands for
Decoded(j) == [id |-> j[3], smiles_string |-> j[1], name |-> j[2]]

C4_Populated ==
    \A r \in Req :
        Missed(r) /\ "cache.set" \notin req[r].errors =>
            /\ Cached(req[r].id)
            /\ Decoded(cache[cache_key(req[r].id)]) = req[r].result.value

\* an entry goes or changes only by the cache.delete of an update or delete of
\* its id, by the cache.set of another get of its id, or by expiry
C4_Kept ==
    \A id \in Ids :
        /\ Cached(id)
        /\ cache_key(id) \notin DOMAIN cache' \/ cache'[cache_key(id)] # cache[cache_key(id)]
        => \/ req' = req
           \/ \E r \in Req :
                  /\ req[r].id = id
                  /\ req[r].pc \in {"u_invalidate", "d_invalidate", "g_cacheset"}
                  /\ req'[r].pc = "done"

\* a get that finds an entry, with a cache.get that does not raise, returns the
\* entry's record at once and calls nothing else
C4_Served ==
    \A r \in Req :
        /\ req[r].pc = "idle"
        /\ req'[r].op = "get"
        /\ CacheHit(req'[r].id)
        /\ "cache.get" \notin req'[r].errors
        => /\ req'[r].pc = "done"
           /\ req'[r].result = Ok(Decoded(cache[cache_key(req'[r].id)]))
           /\ req'[r].calls = <<"cache.get">>

C5_HitStep ==
    \A r \in Req :
        /\ req[r].pc = "idle"
        /\ req'[r].op = "get"
        /\ CacheHit(req'[r].id)
        /\ "cache.get" \notin req'[r].errors
        => /\ req'[r].pc = "done"
           /\ req'[r].result.kind = "ok"
           /\ req'[r].result.value.id = cache[cache_key(req'[r].id)][3]
           /\ req'[r].result.value.smiles_string = cache[cache_key(req'[r].id)][1]
           /\ req'[r].result.value.name = cache[cache_key(req'[r].id)][2]
           /\ ~Has(req'[r], "repository.get_by_id")
           /\ ~Has(req'[r], "cache.set")
           /\ store' = store /\ cache' = cache /\ next_id' = next_id
           /\ \A q \in Req \ {r} : req'[q] = req[q]

C5_HitReturnsCachedOnly == [][C5_HitStep]_vars

\* a get returns from a hit, with the record the store holds
C5_Witness ==
    \E r \in Req :
        /\ Hit(r)
        /\ store[req[r].id].present
        /\ req[r].result.value = MoleculeInDB(req[r].id, store[req[r].id])

CacheCalls(rec) == {rec.calls[i] : i \in DOMAIN rec.calls} \cap {"cache.get", "cache.set", "cache.delete"}

\* every cache call that request r made has raised
Unavailable(r) == CacheCalls(req[r]) # {} /\ CacheCalls(req[r]) \subseteq req[r].errors

\* C6: when every cache operation of a get, update or delete fails, the call
\* returns what the Record Store alone gives: for get the row it read or
\* NotFound when the store has none, for update the row the store returned,
\* for delete success with the row gone; no cache error reaches the caller.
C6_StoreAloneWhenUnavailable ==
    \A r \in Req :
        req[r].pc = "done" /\ Unavailable(r) =>
            /\ req[r].result.kind \in {"ok", "MoleculeNotFoundException"}
            /\ req[r].op = "get" =>
                   /\ Has(req[r], "repository.get_by_id")
                   /\ IF req[r].result.kind = "ok"
                      THEN /\ req[r].result.value = req[r].db_molecule
                           /\ req[r].result.value.id = req[r].id
                      ELSE ~store[req[r].id].present
            /\ req[r].op = "update" =>
                   /\ req[r].result = Ok(req[r].db_molecule)
                   /\ req[r].db_molecule.id = req[r].id
            /\ req[r].op = "delete" =>
                   /\ req[r].result.kind = "ok"
                   /\ ~store[req[r].id].present

\* a get returns its record although cache.get and cache.set both raised
C6_Witness ==
    \E r \in Req :
        /\ ReturnedOk(r, "get")
        /\ req[r].errors = {"cache.get", "cache.set"}

\* C7: every record in the store has a structure that the validator accepts.
C7_StoredStructuresValid ==
    \A i \in Ids :
        store[i].present =>
            /\ store[i].smiles_string # NULL
            /\ MolFromSmiles(store[i].smiles_string)

\* an update has written the empty structure, which skipped validation, while
\* an update that set structure to null ends in the store's integrity error
C7_Witness ==
    /\ \E r \in Req :
           /\ req[r].op = "update"
           /\ req[r].pc = "u_refresh"
           /\ req[r].payload.smiles_string = ""
           /\ store[req[r].id].present
           /\ store[req[r].id].smiles_string = ""
    /\ \E q \in Req :
           /\ Returned(q, "update")
           /\ req[q].payload.smiles_string = NULL
           /\ req[q].result.kind = "IntegrityError"

\* C8: an update whose payload has structure present is validated, and when the
\* validator rejects the value it fails with InvalidStructure before the store
\* is called; only a payload without structure skips validation.
C8_PresentStructureValidated ==
    \A r \in Req :
        req[r].op = "update" /\ req[r].payload.smiles_string # UNSET =>
            /\ Has(req[r], "validate")
            /\ ~MolFromSmiles(req[r].payload.smiles_string) =>
                   /\ req[r].pc = "done"
                   /\ req[r].result.kind = "InvalidSmilesStringException"
                   /\ ~Has(req[r], "repository.update")

Records(s) == {i \in Ids : s[i].present}

\* the step in which request r calls create
CreateStep(r) == req[r].pc = "idle" /\ req'[r].op = "create"

\* create of a rejected structure: InvalidStructure and no store write
C9_Rejected(r) ==
    /\ req'[r].result.kind = "InvalidSmilesStringException"
    /\ ~Has(req'[r], "repository.add")
    /\ store' = store

\* C9 as stated: create with a structure the validator rejects fails with
\* InvalidStructure and writes nothing; with an accepted structure it adds
\* exactly one record and leaves the cache as it is.
C9_CreateAddsOne ==
    [][\A r \in Req :
          CreateStep(r) =>
              IF ~MolFromSmiles(req'[r].payload.smiles_string)
              THEN C9_Rejected(r)
              ELSE /\ Cardinality(Records(store')) = Cardinality(Records(store)) + 1
                   /\ cache' = cache]_vars

\* C9 amended: create with a structure the validator rejects fails with
\* InvalidStructure and writes nothing; with an accepted structure that no
\* record holds yet it adds exactly one record, under a new id and with the
\* payload's fields, and with an accepted structure that a record already
\* holds it fails with the store's integrity error and adds nothing; in no
\* case does it touch the cache.
C9_CreateAddsOneUnlessDuplicate ==
    [][\A r \in Req :
          CreateStep(r) =>
              LET p == req'[r].payload
              IN  /\ cache' = cache
                  /\ IF ~MolFromSmiles(p.smiles_string)
                     THEN C9_Rejected(r)
                     ELSE IF \E j \in Ids : store[j].present /\ store[j].smiles_string = p.smiles_string
                     THEN /\ req'[r].result.kind = "IntegrityError"
                          /\ store' = store
                     ELSE \E i \in Ids :
                              /\ ~store[i].present
                              /\ req'[r].id = i
                              /\ store' = [store EXCEPT ![i] = Row(p.smiles_string, p.name)]]_vars

\* one create has added its record while another returns InvalidStructure
C9_Witness ==
    /\ \E r \in Req :
           /\ req[r].op = "create"
           /\ req[r].pc = "c_refresh"
           /\ store[req[r].id] = Row(req[r].payload.smiles_string, req[r].payload.name)
    /\ \E q \in Req :
           /\ Returned(q, "create")
           /\ req[q].result.kind = "InvalidSmilesStringException"

\* no two records of the store have the same structure
C10_Unique ==
    \A i, j \in Ids :
        i # j /\ store[i].present /\ store[j].present =>
            store[i].smiles_string # store[j].smiles_string

Holds(id, s) == \E j \in Ids : j # id /\ store[j].present /\ store[j].smiles_string = s

\* a create, or the write of an update, that would duplicate the structure of
\* another record ends in the store's integrity error and changes no row
C10_ConflictStep ==
    \A r \in Req :
        /\ CreateStep(r) /\ MolFromSmiles(req'[r].payload.smiles_string)
             /\ Holds(0, req'[r].payload.smiles_string)
           => req'[r].result.kind = "IntegrityError" /\ store' = store
        /\ req[r].pc = "u_write" /\ req'[r].pc # "u_write"
             /\ store[req[r].id].present
             /\ Holds(req[r].id, req[r].payload.smiles_string)
           => req'[r].result.kind = "IntegrityError" /\ store' = store

\* C10: under every interleaving of create, update and delete no two records
\* have the same structure, and a create or update that would duplicate an
\* existing structure fails with the store's conflict error and leaves the
\* store unchanged.
C10_StructureUnique == []C10_Unique /\ [][C10_ConflictStep]_vars

\* an update to the structure of another record returns the integrity error
C10_Witness ==
    \E r \in Req :
        /\ Returned(r, "update")
        /\ req[r].result.kind = "IntegrityError"
        /\ Holds(req[r].id, req[r].payload.smiles_string)

\* the client's last call was a create that returned a record, and the call
\* that returns now is its get of that record's id
GetAfterCreate(r) ==
    /\ Returned(r, "get")
    /\ last[r].op = "create"
    /\ last[r].result.kind = "ok"
    /\ req[r].id = last[r].result.value.id

\* C11: after any sequence of calls, a create(s, n) that succeeds, followed by
\* get(id) with the id it returned, yields the record with that id, structure
\* s and name n, whether or not the cache answers.
C11_RoundTrip ==
    \A r \in DOMAIN last :
        GetAfterCreate(r) =>
            req[r].result =
                Ok([id |-> req[r].id,
                    smiles_string |-> last[r].payload.smiles_string,
                    name |-> last[r].payload.name])

\* the get after a create of a record without a name returns, with failing
\* cache calls, while the cache holds an entry of an earlier record
C11_Witness ==
    \E r \in DOMAIN last :
        /\ GetAfterCreate(r)
        /\ last[r].payload.name = NULL
        /\ req[r].errors # {}
        /\ \E j \in Ids : j # req[r].id /\ Cached(j)

\* the value of field f after an update with payload p, given its value before
Written(p, f, before) == IF p[f] = UNSET THEN before ELSE p[f]

\* the write of an update changes, in the row of its id, the fields the payload
\* sets, to the payload's values (null included), and nothing else in the store
C12_WriteStep ==
    \A r \in Req :
        req[r].pc = "u_write" /\ req'[r].pc # "u_write" =>
            LET id == req[r].id
                p == req[r].payload
            IN  /\ update_data(p) # {}
                /\ \A j \in Ids \ {id} : store'[j] = store[j]
                /\ next_id' = next_id
                /\ IF req'[r].pc = "u_refresh" /\ store[id].present
                   THEN /\ store'[id].present
                        /\ \A f \in {"smiles_string", "name"} :
                               store'[id][f] = Written(p, f, store[id][f])
                   ELSE store' = store

\* an update with no field set, of an id that has a row, takes the row as it
\* is and goes on to the cache invalidation without a write
C12_ZeroFieldsStep ==
    \A r \in Req :
        /\ req[r].pc = "idle"
        /\ req'[r].op = "update"
        /\ update_data(req'[r].payload) = {}
        /\ store[req'[r].id].present
        => /\ req'[r].pc = "u_invalidate"
           /\ req'[r].db_molecule = MoleculeInDB(req'[r].id, store[req'[r].id])
           /\ store' = store

\* a successful update returns the record of its id as the store holds it; one
\* that set no field has not issued an UPDATE
C12_Returns ==
    \A r \in Req :
        ReturnedOk(r, "update") =>
            /\ req[r].result.value.id = req[r].id
            /\ store[req[r].id].present
            /\ req[r].result.value = MoleculeInDB(req[r].id, store[req[r].id])
            /\ Has(req[r], "UPDATE") \/ req[r].calls = <<"repository.update", "cache.delete">>

\* C12: a successful update(id, partial) changes exactly the fields the payload
\* sets (a field set to null is written, an unset field keeps its value), never
\* the id or another record, and returns the record as the store then holds it;
\* with no field set it returns the current record and writes nothing.
C12_UpdateFrame == []C12_Returns /\ [][C12_WriteStep /\ C12_ZeroFieldsStep]_vars

\* an update that set only name, to null, has written the row: the structure
\* is the one it was, the name is gone, and the other record has its name
C12_Witness ==
    \E r \in Req :
        /\ req[r].op = "update"
        /\ req[r].pc = "u_refresh"
        /\ req[r].payload = [smiles_string |-> UNSET, name |-> NULL]
        /\ store[req[r].id] = Row("CCO", NULL)
        /\ \E j \in Ids : j # req[r].id /\ store[j] = Row("", "Ethanol")

\* request r calls update or delete, in this step, for an id without a row
CallsMissing(r) ==
    /\ req[r].pc = "idle"
    /\ req'[r].op \in {"update", "delete"}
    /\ ~store[req'[r].id].present

\* the call ends at once with NotFound; store and cache are as they were and
\* no cache.delete was issued
EndsNotFound(r) ==
    /\ req'[r].pc = "done"
    /\ req'[r].result.kind = "MoleculeNotFoundException"
    /\ ~Has(req'[r], "cache.delete")
    /\ ~Has(req'[r], "UPDATE") /\ ~Has(req'[r], "DELETE")
    /\ store' = store /\ cache' = cache /\ next_id' = next_id

\* C13 as stated: update(id, partial) and delete(id) for an id that has no row
\* fail with NotFound, leave the store unchanged and issue no invalidation.
C13_MissingIsNotFound == [][\A r \in Req : CallsMissing(r) => EndsNotFound(r)]_vars

\* C13 amended: delete(id), and update(id, partial) with a payload that passes
\* the validation guard, for an id that has no row fail with NotFound, leave
\* store and cache unchanged and issue no invalidation; an update whose
\* structure the validator rejects fails with InvalidStructure first, without
\* a store call, whether or not the id has a row.
C13_MissingIsNotFoundOnceValidated ==
    [][\A r \in Req :
          CallsMissing(r) =>
              IF req'[r].op = "update" /\ Truthy(req'[r].payload.smiles_string)
                    /\ ~MolFromSmiles(req'[r].payload.smiles_string)
              THEN /\ req'[r].pc = "done"
                   /\ req'[r].result.kind = "InvalidSmilesStringException"
                   /\ req'[r].calls = <<"validate">>
                   /\ store' = store /\ cache' = cache
              ELSE EndsNotFound(r)]_vars

\* a delete of an id without a row returns NotFound while the cache still
\* holds an entry of that id
C13_Witness ==
    \E r \in Req :
        /\ Returned(r, "delete")
        /\ req[r].result.kind = "MoleculeNotFoundException"
        /\ ~store[req[r].id].present
        /\ Cached(req[r].id)

\* C14: repository.delete answers true only when its own DELETE removed the
\* row of that id, so that of the delete calls for one record at most one
\* reports success, also when two of them interleave.
C14_DeleteRemovesOnce ==
    [][\A r \in Req :
          req[r].pc = "d_write" /\ req'[r].pc = "d_invalidate" =>
              store[req[r].id].present /\ ~store'[req[r].id].present]_vars

\* the search call op returns in this state
SReturned(op) == sreq.pc = "done" /\ sreq.op = op

SReturnedOk(op) == SReturned(op) /\ sreq.kind = "ok"

\* the step in which submit_search is called
SubmitStep == sreq.pc = "idle" /\ sreq'.op = "submit"

\* submit_search of a rejected structure: InvalidStructure, nothing enqueued
C15_Rejected ==
    /\ sreq'.pc = "done"
    /\ sreq'.kind = "InvalidSmilesStringException"
    /\ broker' = broker

\* exactly one message is put on the broker: a new task id, the structure
C15_Enqueued ==
    /\ sreq'.pc = "s_status"
    /\ sreq'.task_id \notin {m.id : m \in broker} \cup DOMAIN backend \cup DOMAIN worker
    /\ [id |-> sreq'.task_id, args |-> sreq'.smiles] \notin broker
    /\ broker' = broker \cup {[id |-> sreq'.task_id, args |-> sreq'.smiles]}

C15_ReturnsReportedStatus ==
    SReturnedOk("submit") =>
        /\ sreq.task_id \in TaskIds
        /\ sreq.response = [task_id |-> sreq.task_id,
                            status |-> get_task_meta(sreq.task_id).status,
                            result |-> None]
        /\ (\E m \in broker : m.id = sreq.task_id) => sreq.response.status = "PENDING"

\* a submit ends in InvalidStructure, in the error of the queue, or normally
C15_Ends ==
    SReturned("submit") =>
        IF ~MolFromSmiles(sreq.smiles)
        THEN sreq.kind = "InvalidSmilesStringException"
        ELSE \/ sreq.kind = "ok"
             \/ sreq.kind = "OperationalError" /\ sreq.errors # {}

C16_PollReturnsStateAndResult ==
    SReturnedOk("poll") =>
        /\ sreq.response.task_id = sreq.task_id
        /\ sreq.response.status \in {"PENDING", "STARTED", "SUCCESS", "FAILURE"}
        /\ sreq.response.status \notin READY_STATES => sreq.response.result = None
        /\ sreq.response.status = "SUCCESS" => sreq.response.result.type = "list"
        /\ sreq.response.status = "FAILURE" => sreq.response.result.type = "str"

\* C17: a poll of a job that ended in FAILURE, made through the route
\* get_search_results, is answered normally (200) with the job id, the status
\* FAILURE and the failure description as result; it is never answered with an
\* error response.
C17_FailureIsANormalResponse ==
    SReturned("poll") /\ sreq.response.status = "FAILURE" =>
        /\ sreq.kind = "ok"
        /\ sreq.response.task_id = sreq.task_id
        /\ sreq.response.result.type = "str"
        /\ sreq.http = 200

\* C19: an error that the queue substrate raises while a job is submitted or
\* its state is looked up is absorbed: no submit_search or poll_search ends
\* with that error.
C19_QueueErrorsAbsorbed ==
    sreq.pc = "done" /\ sreq.errors # {} =>
        /\ sreq.kind = "ok"
        /\ sreq.http \in {200, 202}

\* the meta that the backend reports for task t after the step
get_task_meta_next(t) == IF t \in DOMAIN backend' THEN backend'[t] ELSE NoMeta

\* the job t exists: its message waits, it runs, or the backend has its state
Submitted(t) == t \in {m.id : m \in broker} \cup DOMAIN worker \cup DOMAIN backend

\* the state of a job moves only PENDING -> STARTED -> SUCCESS | FAILURE, its
\* result is set with the final state, and a final state and its result stay
C18_Forward ==
    \A t \in TaskIds :
        LET a == get_task_meta(t)
            b == get_task_meta_next(t)
        IN  /\ a.status \in READY_STATES => b = a
            /\ b # a =>
                   /\ <<a.status, b.status>> \in
                          {<<"PENDING", "STARTED">>, <<"STARTED", "SUCCESS">>,
                           <<"STARTED", "FAILURE">>}
                   /\ a.result = None

\* a step of submit_search or poll_search changes no job: the backend and the
\* workers are as they were, and the broker at most gains the message of a
\* new job
C18_ServiceStep ==
    sreq' # sreq =>
        /\ backend' = backend
        /\ worker' = worker
        /\ \A t \in TaskIds : Submitted(t) => (\A m \in broker' : m.id = t => m \in broker)
        /\ broker \subseteq broker'

\* a job in a final state is neither waiting on the broker nor running
C18_Final ==
    \A t \in DOMAIN backend :
        backend[t].status \in READY_STATES =>
            t \notin DOMAIN worker /\ \A m \in broker : m.id # t

\* C18: the state of a job only moves forward along PENDING -> STARTED ->
\* SUCCESS | FAILURE (STARTED being the substrate's name of the running state);
\* once SUCCESS or FAILURE it never changes again and the job is not run
\* again; no call of the Molecule Service changes the state or the result of
\* an existing job.
C18_JobsMoveForward == []C18_Final /\ [][C18_Forward /\ C18_ServiceStep]_vars

\* one job has failed and stays failed while a later one has succeeded with a
\* match, and a poll returns
C18_Witness ==
    /\ \E t \in DOMAIN backend : backend[t].status = "FAILURE"
    /\ \E u \in DOMAIN backend :
           backend[u].status = "SUCCESS" /\ backend[u].result = List(<<"CCO">>)
    /\ SReturnedOk("poll")

\* the positions of sequence s whose element satisfies Keep
Kept_in(s, Keep(_)) == {i \in 1 .. Len(s) : Keep(s[i])}

\* l is the subsequence of s, in the order of s, of the elements that satisfy
\* Keep: its k-th element is the element at the k-th kept position of s
IsSubsequenceOf(l, s, Keep(_)) ==
    /\ Len(l) = Cardinality(Kept_in(s, Keep))
    /\ \A i \in Kept_in(s, Keep) :
           l[Cardinality({j \in Kept_in(s, Keep) : j <= i})] = s[i]

\* the ids of the rows of the table
RowIds(table) == {i \in DOMAIN table : table[i].present}

\* the list a task run has streamed is the structures of the rows of the
\* table in ascending order of id
C20_Streamed ==
    \A t \in DOMAIN worker :
        worker[t].pc = "matching" =>
            LET list == worker[t].molecule_smiles_list
            IN  /\ Len(list) = Cardinality(RowIds(store))
                /\ \A i \in RowIds(store) :
                       list[Cardinality({j \in RowIds(store) : j <= i})] =
                           store[i].smiles_string

\* a task run that ends in SUCCESS stores the candidates that parse and
\* contain the query, in the order they were streamed, and nothing else
C20_MatchStep ==
    \A t \in DOMAIN worker :
        /\ worker[t].pc = "matching"
        /\ get_task_meta_next(t).status = "SUCCESS"
        => /\ get_task_meta_next(t).result.type = "list"
           /\ IsSubsequenceOf(get_task_meta_next(t).result.value,
                              worker[t].molecule_smiles_list,
                              LAMBDA s : /\ MolFromSmiles(s)
                                         /\ HasSubstructMatch(s, worker[t].args))

\* a task run that finds no row ends in SUCCESS with the empty list
C20_EmptyStep ==
    \A t \in DOMAIN worker :
        /\ worker[t].pc = "streaming"
        /\ get_task_meta_next(t).status = "SUCCESS"
        => /\ RowIds(store) = {}
           /\ get_task_meta_next(t).result = List(<<>>)

C21_UnparseableQueryRaises ==
    matched.called /\ ~MolFromSmiles(matched.substructure) =>
        /\ matched.outcome = Exc("Invalid substructure")
        /\ matched.outcome.type # "list"

\* the matcher was called with the empty candidate list and a query that does
\* not parse
C21_Witness ==
    /\ matched.called
    /\ matched.molecules = <<>>
    /\ matched.substructure = "invalid-smiles"
    /\ matched.outcome.type = "exception"

\* the matcher is only ever called on a list that is not empty, read from a
\* store that holds a record
C22_MatcherNeedsRecords ==
    \A t \in DOMAIN worker :
        worker[t].pc = "matching" =>
            /\ worker[t].molecule_smiles_list # <<>>
            /\ RowIds(store) # {}

\* with no record in the store no job ends with the matcher's error
C22_NoMatcherError ==
    RowIds(store) = {} =>
        \A t \in DOMAIN backend : backend[t].result # Exc("Invalid substructure")

\* the run that reads a store with no records (the read returns: it does not
\* raise) ends at once in SUCCESS with the empty list
C22_EmptyStep ==
    \A t \in DOMAIN worker :
        /\ worker[t].pc = "streaming"
        /\ RowIds(store) = {}
        /\ get_task_meta_next(t).status # "FAILURE"
        => /\ t \notin DOMAIN worker'
           /\ get_task_meta_next(t) = Meta("SUCCESS", List(<<>>))

\* C22: a Search Job that reads a store with no records ends in SUCCESS with
\* the empty match list and never calls the matcher, whatever the query is,
\* one that does not parse included.
C22_EmptyStoreSucceeds ==
    /\ [](C22_MatcherNeedsRecords /\ C22_NoMatcherError)
    /\ [][C22_EmptyStep]_vars

\* a job has ended in SUCCESS with the empty list on a store with no records
C22_Witness ==
    /\ RowIds(store) = {}
    /\ DOMAIN worker = {}
    /\ 1 \in DOMAIN backend
    /\ backend[1] = Meta("SUCCESS", List(<<>>))

\* the number of rows of the table with an id below i
Rank(table, i) == Cardinality({j \in RowIds(table) : j < i})

\* items is the page (skip, limit) of the table: the record of every row whose
\* position in ascending order of id, counted from 0, is in skip .. skip+limit-1,
\* in that order, and nothing else
IsPage(items, table, skip, limit) ==
    LET on == {i \in RowIds(table) : Rank(table, i) \in skip .. (skip + limit - 1)}
    IN  /\ Len(items) = Cardinality(on)
        /\ \A i \in on : items[Rank(table, i) - skip + 1] = MoleculeInDB(i, table[i])

\* a list that returns has made one call, of the store, and returns the page
\* of the table
C23_ReturnsPage ==
    \A r \in Req :
        Returned(r, "list") =>
            /\ req[r].result.kind = "ok"
            /\ req[r].calls = <<"repository.list_all">>
            /\ req[r].errors = {}
            /\ IsPage(req[r].items, store, req[r].skip, req[r].limit)

\* the step of a list changes neither the cache nor the store
C23_ListStep ==
    \A r \in Req :
        req[r].pc = "idle" /\ req'[r].op = "list" => cache' = cache /\ store' = store

\* C23: list(skip, limit) returns exactly the records at the positions
\* skip .. skip+limit-1 of the store's records in ascending order of id, makes
\* no cache call, and changes no cache entry and no record.
C23_ListReturnsPage == []C23_ReturnsPage /\ [][C23_ListStep]_vars

\* a list returns the second of three records, the only one of its page, while
\* the cache holds an entry
C23_Witness ==
    \E r \in Req :
        /\ Returned(r, "list")
        /\ Cardinality(RowIds(store)) = 3
        /\ req[r].skip = 1
        /\ req[r].limit = 1
        /\ req[r].items = <<MoleculeInDB(2, store[2])>>
        /\ Cached(1)

\* the call of request r has ended with an exception
Failed(r) == req[r].pc = "done" /\ req[r].result.kind # "ok"

\* C24: every request whose service call fails is answered by the kind of the
\* failure: NotFound with 404, InvalidStructure with 400, any other failure
\* (the unique violation of a create among them) with 500; so NotFound and
\* InvalidStructure are never answered 500.
C24_ReportedByKind ==
    \A r \in Req :
        Failed(r) =>
            StatusCode(req[r]) =
                CASE req[r].result.kind = "MoleculeNotFoundException" -> 404
                  [] req[r].result.kind = "InvalidSmilesStringException" -> 400
                  [] OTHER -> 500

\* a create that the unique index refused is answered 500 while another
\* request is in flight
C24_Witness ==
    \E r \in Req :
        /\ Failed(r)
        /\ req[r].op = "create"
        /\ req[r].result.kind = "IntegrityError"
        /\ StatusCode(req[r]) = 500
        /\ \E q \in Req : req[q].pc \notin {"idle", "done"}

\* the call that client r made last was a create whose structure the
\* validator accepted
ValidatedBefore(r, s) ==
    /\ last[r].op = "create"
    /\ last[r].payload.smiles_string = s
    /\ last[r].result.kind # "InvalidSmilesStringException"

\* C25: once a structure was validated as valid in the process, a validate
\* call for the same string while a later request is served is answered from
\* the memo: the structure is not parsed again.
C25_MemoAcrossRequests ==
    [][\A r \in DOMAIN last :
          /\ req[r].pc = "idle"
          /\ Has(req'[r], "validate")
          /\ ValidatedBefore(r, req'[r].payload.smiles_string)
          => req'[r].parsed = <<>>]_vars

\* every validate call returned whether its string parses
C26_ReturnsParseResult ==
    \A i \in DOMAIN service.calls :
        service.calls[i].returned = MolFromSmiles(service.calls[i].smiles)

\* the memo holds only strings that parse, each mapped to True, and among
\* them every string that a call accepted
C26_MemoHoldsValidOnly ==
    /\ \A s \in DOMAIN service.rdkit_cache :
           MolFromSmiles(s) /\ service.rdkit_cache[s] = TRUE
    /\ \A i \in DOMAIN service.calls :
           service.calls[i].returned => service.calls[i].smiles \in DOMAIN service.rdkit_cache

\* a string that does not parse was parsed at every call made with it
C26_InvalidReparsed ==
    \A i \in DOMAIN service.calls :
        ~MolFromSmiles(service.calls[i].smiles) =>
            /\ service.calls[i].parsed
            /\ service.calls[i].smiles \notin DOMAIN service.rdkit_cache

\* C26: across any sequence of validate calls on a service, validate(s)
\* returns true iff s parses (it returns a boolean at every call: no call
\* raises); the memo only ever holds strings that parsed, each mapped to
\* true; a string that does not parse is never stored and is parsed again at
\* every call.
C26_ValidatorContract ==
    C26_ReturnsParseResult /\ C26_MemoHoldsValidOnly /\ C26_InvalidReparsed

\* a service has refused the same string twice, parsing it both times, after
\* it accepted a string twice, the second time from the memo
C26_Witness ==
    /\ Len(service.calls) = 4
    /\ service.calls[1] = [smiles |-> "CCO", returned |-> TRUE, parsed |-> TRUE]
    /\ service.calls[2] = [smiles |-> "CCO", returned |-> TRUE, parsed |-> FALSE]
    /\ service.calls[3] = [smiles |-> "invalid-smiles", returned |-> FALSE, parsed |-> TRUE]
    /\ service.calls[4] = [smiles |-> "invalid-smiles", returned |-> FALSE, parsed |-> TRUE]
    /\ DOMAIN service.rdkit_cache = {"CCO"}

\* the cache holds under molecule:<id> a record that is not the store's row
\* of id, or a record of an id the store has no row of
Stale(id) ==
    /\ Cached(id)
    /\ \/ ~store[id].present
       \/ Decoded(cache[cache_key(id)]) # MoleculeInDB(id, store[id])

\* the get of request r has read a row that the store does not hold any more:
\* an update or a delete of its id was committed after the read
Behind(r) ==
    /\ req[r].op = "get"
    /\ req[r].pc = "g_cacheset"
    /\ \/ ~store[req[r].id].present
       \/ req[r].db_molecule # MoleculeInDB(req[r].id, store[req[r].id])

\* C27: a get(id) that has read the store before an update(id) or delete(id)
\* committed writes the record it read into the cache without looking at the
\* store again; when that write comes after the mutation's cache delete, both
\* calls return and the cache is left with a record for id that differs from
\* the store's row, or that the store no longer holds.
C27_LateSetLeavesStale ==
    [][\A r \in Req :
          /\ Behind(r)
          /\ req'[r].pc = "done"
          /\ "cache.set" \notin req'[r].errors
          => /\ Stale(req[r].id)'
             /\ Decoded(cache'[cache_key(req[r].id)]) = req[r].db_molecule
             /\ req'[r].result = Ok(req[r].db_molecule)]_vars

\* the get returns the record it has just cached, the store's row of that id
\* is another one, and the client that updated it has returned
C27_Witness ==
    \E r, q \in Req :
        /\ r # q
        /\ Missed(r)
        /\ "cache.set" \notin req[r].errors
        /\ store[req[r].id].present
        /\ Stale(req[r].id)
        /\ Decoded(cache[cache_key(req[r].id)]) = req[r].result.value
        /\ req[q].pc = "idle"

\* the same after a delete: the get returns the record it has just cached, of
\* an id the store has no row of, and the client that deleted it has returned
C27_WitnessDeleted ==
    \E r, q \in Req :
        /\ r # q
        /\ Missed(r)
        /\ "cache.set" \notin req[r].errors
        /\ ~store[req[r].id].present
        /\ Stale(req[r].id)
        /\ req[q].pc = "idle"

\* cache.set is called only by a get, after the store read that follows its
\* miss
C28_SetOnlyAfterMiss ==
    \A r \in Req :
        Has(req[r], "cache.set") =>
            /\ req[r].op = "get"
            /\ req[r].calls = <<"cache.get", "repository.get_by_id", "cache.set">>

\* a get served from the cache has made no call but cache.get
C28_HitCallsNothingElse == \A r \in Req : Hit(r) => req[r].calls = <<"cache.get">>

\* an entry is set or changed only by the step of a get that missed, and the
\* step of a hit leaves the cache as it is
C28_WriteStep ==
    /\ \A id \in Ids :
           /\ Cached(id)'
           /\ ~Cached(id) \/ cache'[cache_key(id)] # cache[cache_key(id)]
           => \E r \in Req :
                  /\ req[r].pc = "g_cacheset"
                  /\ req[r].id = id
                  /\ req'[r].pc = "done"
                  /\ cache'[cache_key(id)] = model_dump_json(req[r].db_molecule)
    /\ \A r \in Req :
           req[r].pc = "idle" /\ req'[r].op = "get" => cache' = cache

\* a get that finds no entry under its key reads the store next
C28_MissReadsStore ==
    \A r \in Req :
        /\ req[r].pc = "idle"
        /\ req'[r].op = "get"
        /\ ~CacheHit(req'[r].id)
        => req'[r].pc = "g_store"

\* C28: an entry is written only by a get that missed (with ex=3600), and a
\* hit neither rewrites it nor extends its life; so every stale entry goes
\* once its time-to-live has run out, and a get(id) that comes after finds no
\* entry and reads the store again.
C28_StalenessEnds ==
    /\ [](C28_SetOnlyAfterMiss /\ C28_HitCallsNothingElse)
    /\ [][C28_WriteStep /\ C28_MissReadsStore]_vars
    /\ \A id \in Ids : Stale(id) ~> ~Cached(id)

\* a stale entry with no request in flight: nothing but its expiry will end it
C28_Witness ==
    \E id \in Ids :
        /\ Stale(id)
        /\ store[id].present
        /\ \A r \in Req : req[r] = Idle

\* the job t is waiting on the broker or is being run by a worker
Pending(t) == t \in {msg.id : msg \in broker} \cup DOMAIN worker

\* a submitted job that has not ended is on the broker or with a worker, and a
\* job that has ended is with neither: it is run once, to its end
C29_RunsOnce ==
    \A t \in TaskIds :
        Submitted(t) => (Pending(t) <=> get_task_meta(t).status \notin READY_STATES)

\* a job that ended in FAILURE holds the error that was raised, and no list
C29_FailureHoldsError ==
    \A t \in DOMAIN backend :
        backend[t].status = "FAILURE" =>
            backend[t].result \in {Exc("OperationalError"), Exc("Invalid substructure")}

\* no step takes a job back: a job leaves the broker only to a worker, and a
\* worker only with SUCCESS or FAILURE stored; a run that ends while matching
\* a query that does not parse ends in FAILURE with the matcher's error
C29_NoCancelStep ==
    \A t \in TaskIds :
        /\ Submitted(t) => Submitted(t)'
        /\ t \in {msg.id : msg \in broker} /\ t \notin {msg.id : msg \in broker'}
           => t \in DOMAIN worker'
        /\ t \in DOMAIN worker /\ t \notin DOMAIN worker'
           => get_task_meta_next(t).status \in READY_STATES
        /\ /\ t \in DOMAIN worker
           /\ worker[t].pc = "matching"
           /\ ~MolFromSmiles(worker[t].args)
           /\ t \notin DOMAIN worker'
           => get_task_meta_next(t) = Meta("FAILURE", Exc("Invalid substructure"))

\* C29: every submitted Search Job eventually reaches SUCCESS or FAILURE when a
\* worker keeps taking steps; no step cancels it or takes it back; a failure
\* while streaming or matching ends it in FAILURE with the error as its result
\* and no partial match list.
C29_JobsEnd ==
    /\ [](C29_RunsOnce /\ C29_FailureHoldsError)
    /\ [][C29_NoCancelStep]_vars
    /\ \A t \in TaskIds : Submitted(t) ~> get_task_meta(t).status \in READY_STATES

\* a job has ended in FAILURE while matching, on a store that holds records
C29_Witness ==
    /\ RowIds(store) # {}
    /\ DOMAIN worker = {}
    /\ broker = {}
    /\ 1 \in DOMAIN backend
    /\ backend[1] = Meta("FAILURE", Exc("Invalid substructure"))

\* the update of request r returns after its write found no row: the row it
\* had selected was deleted before the UPDATE, so it never read the row back
WroteNothing(r) ==
    /\ Returned(r, "update")
    /\ Has(req[r], "UPDATE")
    /\ req[r].db_molecule = NoMolecule
    /\ ~store[req[r].id].present

\* C30: an update(id, partial) whose record a delete(id) has removed between
\* the update's existence check and its write fails with NotFound: it neither
\* reports success nor raises an untyped error.
C30_UpdateOfDeletedIsNotFound ==
    \A r \in Req : WroteNothing(r) => req[r].result.kind = "MoleculeNotFoundException"
====
